---- MODULE Spec2Model ----
(***************************************************************************)
(* The editor of src/main.rs as a state machine: the Editor struct, the    *)
(* eight arms of Editor::update, and the three futures pick_file,          *)
(* load_file and save_file, each advanced one await at a time by the       *)
(* environment (the native dialog and the file system).                    *)
(*                                                                         *)
(* text_editor::Content is the widget library's buffer (iced 0.13, the     *)
(* release whose application(title, update, view).run_with API main.rs     *)
(* uses).  It keeps the text as a list of lines and a cursor; with_text    *)
(* splits at line breaks and text() joins the lines with '\n' and appends  *)
(* a '\n' when the result does not end with one.  The operators with_text, *)
(* text, new and perform model the calls main.rs makes on it.              *)
(***************************************************************************)
EXTENDS Bags, FiniteSets, Integers, Sequences, TLC

\* path, content, error: the fields of Editor.  tasks: the futures handed to
\* the runtime whose message update has not yet handled.  written: the last
\* successful smol::fs::write (its path and text).  last: the constructor or
\* the arm of update that ran last.
VARIABLES path, content, error, tasks, written, last

vars == <<path, content, error, tasks, written, last>>

(* ------------------------------ bounds --------------------------------- *)
\* Most asynchronous operations outstanding at once.
MaxPending == 2

(* ------------------------------ values --------------------------------- *)
LF == "\n"
Chars == {"a", LF}
\* The texts a file or the buffer holds: empty, one without a final line
\* break, one that ends with a line break.
Texts == {<<>>, <<"a">>, <<LF>>}

None == <<>>
Some(x) == <<x>>

DefaultFile == "src/main.rs"
Paths == {DefaultFile, "notes.txt"}
NoPath == ""

\* io::ErrorKind values: what read_to_string and what write fail with.
ReadErrorKinds == {"NotFound", "PermissionDenied"}
WriteErrorKinds == {"PermissionDenied"}
ErrorKinds == ReadErrorKinds \cup WriteErrorKinds
DialogClosed == [tag |-> "DialogClosed", kind |-> "-"]
IOFailed(k) == [tag |-> "IOFailed", kind |-> k]
NoError == [tag |-> "-", kind |-> "-"]
Errors == {DialogClosed} \cup {IOFailed(k) : k \in ErrorKinds}

\* Result<(PathBuf, Arc<String>), Error> and Result<PathBuf, Error>.
OkOpened(p, c) == [ok |-> TRUE, path |-> p, contents |-> c, err |-> NoError]
OkSaved(p) == [ok |-> TRUE, path |-> p, contents |-> <<>>, err |-> NoError]
Err(e) == [ok |-> FALSE, path |-> NoPath, contents |-> <<>>, err |-> e]
NoResult == [ok |-> FALSE, path |-> NoPath, contents |-> <<>>, err |-> NoError]

(* --------------------- text_editor::Content ---------------------------- *)
RECURSIVE SplitLines(_)
SplitLines(t) ==
    IF \A i \in 1..Len(t) : t[i] # LF
    THEN <<t>>
    ELSE LET i == CHOOSE k \in 1..Len(t) :
                      t[k] = LF /\ \A j \in 1..(k - 1) : t[j] # LF
         IN <<SubSeq(t, 1, i - 1)>> \o SplitLines(SubSeq(t, i + 1, Len(t)))

RECURSIVE JoinLines(_)
JoinLines(ls) ==
    IF Len(ls) = 1 THEN ls[1] ELSE ls[1] \o <<LF>> \o JoinLines(Tail(ls))

with_text(t) == [lines |-> SplitLines(t), line |-> 0, column |-> 0]

new == with_text(<<>>)

text(c) ==
    LET joined == JoinLines(c.lines)
    IN IF joined # <<>> /\ joined[Len(joined)] = LF
       THEN joined
       ELSE Append(joined, LF)

cursor_position(c) == <<c.line, c.column>>

\* text_editor::Action, the part of it a keyboard produces.
Actions == {[op |-> "Insert", ch |-> "a"], [op |-> "Enter", ch |-> LF],
            [op |-> "Backspace", ch |-> LF], [op |-> "Left", ch |-> LF],
            [op |-> "Right", ch |-> LF]}

ReplaceLines(ls, i, new_ls) ==
    SubSeq(ls, 1, i - 1) \o new_ls \o SubSeq(ls, i + 1, Len(ls))

perform(c, a) ==
    LET i == c.line + 1
        cur == c.lines[i]
        before == SubSeq(cur, 1, c.column)
        after == SubSeq(cur, c.column + 1, Len(cur))
    IN CASE a.op = "Insert" ->
              [lines |-> ReplaceLines(c.lines, i, <<before \o <<a.ch>> \o after>>),
               line |-> c.line, column |-> c.column + 1]
         [] a.op = "Enter" ->
              [lines |-> ReplaceLines(c.lines, i, <<before, after>>),
               line |-> c.line + 1, column |-> 0]
         [] a.op = "Backspace" ->
              IF c.column > 0
              THEN [lines |-> ReplaceLines(c.lines, i,
                                 <<SubSeq(cur, 1, c.column - 1) \o after>>),
                    line |-> c.line, column |-> c.column - 1]
              ELSE IF c.line > 0
              THEN [lines |-> SubSeq(c.lines, 1, i - 2)
                                \o <<c.lines[i - 1] \o cur>>
                                \o SubSeq(c.lines, i + 1, Len(c.lines)),
                    line |-> c.line - 1, column |-> Len(c.lines[i - 1])]
              ELSE c
         [] a.op = "Left" ->
              IF c.column > 0
              THEN [c EXCEPT !.column = c.column - 1]
              ELSE IF c.line > 0
              THEN [c EXCEPT !.line = c.line - 1,
                             !.column = Len(c.lines[i - 1])]
              ELSE c
         [] a.op = "Right" ->
              IF c.column < Len(cur)
              THEN [c EXCEPT !.column = c.column + 1]
              ELSE IF i < Len(c.lines)
              THEN [c EXCEPT !.line = c.line + 1, !.column = 0]
              ELSE c

(* ------------------------- the three futures --------------------------- *)
\* A Task::perform future and where it stands: at its dialog await, at its
\* file-system await, or finished with the Result its message will carry.
Task(k, s, p, t, r) ==
    [kind |-> k, stage |-> s, path |-> p, text |-> t, result |-> r]

\* pick_file() up to its first await.
pick_file == Task("open", "dialog", NoPath, <<>>, NoResult)

\* load_file(p) up to its await.
load_file(p) == Task("open", "io", p, <<>>, NoResult)

\* save_file with a slip: it shows the dialog even when a path is given.
save_file_AlwaysAsks(p, t) == Task("save", "dialog", NoPath, t, NoResult)

\* save_file(p, t) up to its first await: the dialog only when p is None.
save_file(p, t) ==
    IF p # None
    THEN Task("save", "io", p[1], t, NoResult)
    ELSE Task("save", "dialog", NoPath, t, NoResult)

finished(t, r) == Task(t.kind, "done", NoPath, <<>>, r)

default_file == DefaultFile

Pending == BagCardinality(tasks)
TaskSet == BagToSet(tasks)
Issue(t) == tasks (+) SetToBag({t})
Replace(t, u) == (tasks (-) SetToBag({t})) (+) SetToBag({u})
Retire(t) == tasks (-) SetToBag({t})

NoWrite == <<>>

(* ------------------------------ Editor::new ---------------------------- *)
\* The constructor with a slip: it starts with the file picker.
Init_PicksFile ==
    /\ path = None
    /\ content = new
    /\ error = None
    /\ tasks = SetToBag({pick_file})
    /\ written = NoWrite
    /\ last = "new"

Init ==
    /\ path = None
    /\ content = new
    /\ error = None
    /\ tasks = SetToBag({load_file(default_file)})
    /\ written = NoWrite
    /\ last = "new"

(* ----------------------------- Editor::update -------------------------- *)
\* The arm with a slip: it forgets to clear the error.
Edit_KeepsError(a) ==
    /\ JoinLines(perform(content, a).lines) \in Texts
    /\ content' = perform(content, a)
    /\ UNCHANGED <<path, error, tasks, written>>
    /\ last' = "Edit"

Edit(a) ==
    /\ JoinLines(perform(content, a).lines) \in Texts
    /\ content' = perform(content, a)
    /\ error' = None
    /\ UNCHANGED <<path, tasks, written>>
    /\ last' = "Edit"

\* The arm with a slip: it resets the buffer and keeps the path.
New_KeepsPath ==
    /\ content' = new
    /\ UNCHANGED <<path, error, tasks, written>>
    /\ last' = "New"

New ==
    /\ path' = None
    /\ content' = new
    /\ UNCHANGED <<error, tasks, written>>
    /\ last' = "New"

\* The arm with a slip: it starts the picker twice.
Open_PicksTwice ==
    /\ Pending < MaxPending
    /\ tasks' = (tasks (+) SetToBag({pick_file})) (+) SetToBag({pick_file})
    /\ UNCHANGED <<path, content, error, written>>
    /\ last' = "Open"

Open ==
    /\ Pending < MaxPending
    /\ tasks' = Issue(pick_file)
    /\ UNCHANGED <<path, content, error, written>>
    /\ last' = "Open"

\* The arm with a slip: it clears the error when a save starts.
Save_ClearsError ==
    /\ Pending < MaxPending
    /\ tasks' = Issue(save_file(path, text(content)))
    /\ error' = None
    /\ UNCHANGED <<path, content, written>>
    /\ last' = "Save"

Save ==
    /\ Pending < MaxPending
    /\ tasks' = Issue(save_file(path, text(content)))
    /\ UNCHANGED <<path, content, error, written>>
    /\ last' = "Save"

FileSavedOk(t) ==
    /\ t.kind = "save" /\ t.stage = "done" /\ t.result.ok
    /\ path' = Some(t.result.path)
    /\ tasks' = Retire(t)
    /\ UNCHANGED <<content, error, written>>
    /\ last' = "FileSavedOk"

\* The arm with a slip: it also forgets the path.
FileSavedErr_ClearsPath(t) ==
    /\ t.kind = "save" /\ t.stage = "done" /\ ~t.result.ok
    /\ error' = Some(t.result.err)
    /\ path' = None
    /\ tasks' = Retire(t)
    /\ UNCHANGED <<content, written>>
    /\ last' = "FileSavedErr"

\* The arm with a slip: it starts the failed save again.
FileSavedErr_Retries(t) ==
    /\ t.kind = "save" /\ t.stage = "done" /\ ~t.result.ok
    /\ error' = Some(t.result.err)
    /\ tasks' = Replace(t, save_file(path, text(content)))
    /\ UNCHANGED <<path, content, written>>
    /\ last' = "FileSavedErr"

\* The arm with a slip: it keeps an error that is already remembered.
FileSavedErr_KeepsFirst(t) ==
    /\ t.kind = "save" /\ t.stage = "done" /\ ~t.result.ok
    /\ error' = IF error = None THEN Some(t.result.err) ELSE error
    /\ tasks' = Retire(t)
    /\ UNCHANGED <<path, content, written>>
    /\ last' = "FileSavedErr"

FileSavedErr(t) ==
    /\ t.kind = "save" /\ t.stage = "done" /\ ~t.result.ok
    /\ error' = Some(t.result.err)
    /\ tasks' = Retire(t)
    /\ UNCHANGED <<path, content, written>>
    /\ last' = "FileSavedErr"

\* The arm with a slip: it stores the path and keeps the old buffer.
FileOpenedOk_KeepsBuffer(t) ==
    /\ t.kind = "open" /\ t.stage = "done" /\ t.result.ok
    /\ path' = Some(t.result.path)
    /\ tasks' = Retire(t)
    /\ UNCHANGED <<content, error, written>>
    /\ last' = "FileOpenedOk"

FileOpenedOk(t) ==
    /\ t.kind = "open" /\ t.stage = "done" /\ t.result.ok
    /\ path' = Some(t.result.path)
    /\ content' = with_text(t.result.contents)
    /\ tasks' = Retire(t)
    /\ UNCHANGED <<error, written>>
    /\ last' = "FileOpenedOk"

\* The arm with a slip: it drops Error::DialogClosed instead of remembering it.
FileOpenedErr_IgnoresCancel(t) ==
    /\ t.kind = "open" /\ t.stage = "done" /\ ~t.result.ok
    /\ error' = IF t.result.err = DialogClosed THEN error ELSE Some(t.result.err)
    /\ tasks' = Retire(t)
    /\ UNCHANGED <<path, content, written>>
    /\ last' = "FileOpenedErr"

\* The arm with a slip: it also forgets the path.
FileOpenedErr_ClearsPath(t) ==
    /\ t.kind = "open" /\ t.stage = "done" /\ ~t.result.ok
    /\ error' = Some(t.result.err)
    /\ path' = None
    /\ tasks' = Retire(t)
    /\ UNCHANGED <<content, written>>
    /\ last' = "FileOpenedErr"

FileOpenedErr(t) ==
    /\ t.kind = "open" /\ t.stage = "done" /\ ~t.result.ok
    /\ error' = Some(t.result.err)
    /\ tasks' = Retire(t)
    /\ UNCHANGED <<path, content, written>>
    /\ last' = "FileOpenedErr"

(* ------------------- the awaits inside the futures --------------------- *)
\* The await with a slip: the picked path is stored before the file is read.
PickFilePicked_StoresPath(t, p) ==
    /\ t.kind = "open" /\ t.stage = "dialog"
    /\ tasks' = Replace(t, load_file(p))
    /\ path' = Some(p)
    /\ UNCHANGED <<content, error, written>>
    /\ last' = last

\* pick_file: the dialog returns a handle, and load_file starts on its path.
PickFilePicked(t, p) ==
    /\ t.kind = "open" /\ t.stage = "dialog"
    /\ tasks' = Replace(t, load_file(p))
    /\ UNCHANGED <<path, content, error, written>>
    /\ last' = last

\* pick_file: the dialog returns None: ok_or(Error::DialogClosed)?
PickFileClosed(t) ==
    /\ t.kind = "open" /\ t.stage = "dialog"
    /\ tasks' = Replace(t, finished(t, Err(DialogClosed)))
    /\ UNCHANGED <<path, content, error, written>>
    /\ last' = last

\* load_file: read_to_string succeeds with the file's contents c.
LoadFileRead(t, c) ==
    /\ t.kind = "open" /\ t.stage = "io"
    /\ tasks' = Replace(t, finished(t, OkOpened(t.path, c)))
    /\ UNCHANGED <<path, content, error, written>>
    /\ last' = last

\* load_file: read_to_string fails with an io::ErrorKind.
LoadFileFailed(t, k) ==
    /\ t.kind = "open" /\ t.stage = "io"
    /\ tasks' = Replace(t, finished(t, Err(IOFailed(k))))
    /\ UNCHANGED <<path, content, error, written>>
    /\ last' = last

\* save_file: the save dialog returns a handle.
SaveFilePicked(t, p) ==
    /\ t.kind = "save" /\ t.stage = "dialog"
    /\ tasks' = Replace(t, Task("save", "io", p, t.text, NoResult))
    /\ UNCHANGED <<path, content, error, written>>
    /\ last' = last

\* save_file: the save dialog returns None.
SaveFileClosed(t) ==
    /\ t.kind = "save" /\ t.stage = "dialog"
    /\ tasks' = Replace(t, finished(t, Err(DialogClosed)))
    /\ UNCHANGED <<path, content, error, written>>
    /\ last' = last

\* The await with a slip: the buffer is read when the write runs.
SaveFileWritten_WritesCurrent(t) ==
    /\ t.kind = "save" /\ t.stage = "io"
    /\ written' = [path |-> t.path, text |-> text(content)]
    /\ tasks' = Replace(t, finished(t, OkSaved(t.path)))
    /\ UNCHANGED <<path, content, error>>
    /\ last' = last

\* save_file: smol::fs::write succeeds.
SaveFileWritten(t) ==
    /\ t.kind = "save" /\ t.stage = "io"
    /\ written' = [path |-> t.path, text |-> t.text]
    /\ tasks' = Replace(t, finished(t, OkSaved(t.path)))
    /\ UNCHANGED <<path, content, error>>
    /\ last' = last

\* save_file: smol::fs::write fails.
SaveFileFailed(t, k) ==
    /\ t.kind = "save" /\ t.stage = "io"
    /\ tasks' = Replace(t, finished(t, Err(IOFailed(k))))
    /\ UNCHANGED <<path, content, error, written>>
    /\ last' = last

Next ==
    \/ \E a \in Actions : Edit(a)
    \/ New
    \/ Open
    \/ Save
    \/ \E t \in TaskSet : FileSavedOk(t)
    \/ \E t \in TaskSet : FileSavedErr(t)
    \/ \E t \in TaskSet : FileOpenedOk(t)
    \/ \E t \in TaskSet : FileOpenedErr(t)
    \/ \E t \in TaskSet, p \in Paths : PickFilePicked(t, p)
    \/ \E t \in TaskSet : PickFileClosed(t)
    \/ \E t \in TaskSet, c \in Texts : LoadFileRead(t, c)
    \/ \E t \in TaskSet, k \in ReadErrorKinds : LoadFileFailed(t, k)
    \/ \E t \in TaskSet, p \in Paths : SaveFilePicked(t, p)
    \/ \E t \in TaskSet : SaveFileClosed(t)
    \/ \E t \in TaskSet : SaveFileWritten(t)
    \/ \E t \in TaskSet, k \in WriteErrorKinds : SaveFileFailed(t, k)

Spec == Init /\ [][Next]_vars

(* ------------------------------ Editor::view --------------------------- *)
\* A path the save or open dialog can return that is not valid UTF-8.
NonUtf8File == "caf<E9>.txt"
AllPaths == Paths \cup {NonUtf8File}

\* Path::to_str: the path as text, None when it is not valid UTF-8.
to_str(p) == IF p = NonUtf8File THEN None ELSE Some(p)

\* io::ErrorKind's Display, as error.to_string() gives it.
to_string(k) ==
    CASE k = "NotFound" -> "entity not found"
      [] k = "PermissionDenied" -> "permission denied"
      [] OTHER -> "other error"

\* let status = if let Some(Error::IOFailed(error)) = self.error.as_ref() ..
status ==
    IF error # None /\ error[1].tag = "IOFailed"
    THEN to_string(error[1].kind)
    ELSE IF path # None /\ to_str(path[1]) # None
         THEN to_str(path[1])[1]
         ELSE "New file"

\* The position text with a slip: the 0-based position is shown as it is.
position_ZeroBased ==
    ToString(cursor_position(content)[1]) \o ":"
        \o ToString(cursor_position(content)[2])

\* let position = { .. format!("{}:{}", line + 1, column + 1) }
position ==
    LET line == cursor_position(content)[1]
        column == cursor_position(content)[2]
    IN ToString(line + 1) \o ":" \o ToString(column + 1)

\* The editor driven by arbitrary messages: update's arms applied to every
\* payload a message can carry, the paths that are not valid UTF-8 included,
\* with no future outstanding.  It reaches every (path, content, error) the
\* view can be asked to render.
Message(kind, r) == Task(kind, "done", NoPath, <<>>, r)

InitView ==
    /\ path = None
    /\ content = new
    /\ error = None
    /\ tasks = EmptyBag
    /\ written = NoWrite
    /\ last = "new"

NextView ==
    \/ \E a \in Actions : Edit(a)
    \/ New
    \/ \E p \in AllPaths : FileSavedOk(Message("save", OkSaved(p)))
    \/ \E e \in Errors : FileSavedErr(Message("save", Err(e)))
    \/ \E p \in AllPaths, c \in Texts :
          FileOpenedOk(Message("open", OkOpened(p, c)))
    \/ \E e \in Errors : FileOpenedErr(Message("open", Err(e)))

SpecView == InitView /\ [][NextView]_vars

(* ------------------------------ properties ----------------------------- *)
IsCancel(t) == t.stage = "done" /\ ~t.result.ok /\ t.result.err = DialogClosed
IsIOFailure(t) ==
    t.stage = "done" /\ ~t.result.ok /\ t.result.err.tag = "IOFailed"
ErrHandled == {"FileOpenedErr", "FileSavedErr"}

\* C1, as claimed: when the completion of a cancelled dialog
\* (FileOpened(Err(DialogClosed)) or FileSaved(Err(DialogClosed))) is
\* handled, path, buffer and remembered error are all left as they were.
C1_CancelLeavesStateUnchanged ==
    [][\A t \in TaskSet :
          ((FileOpenedErr(t) \/ FileSavedErr(t)) /\ IsCancel(t))
             => (path' = path /\ content' = content /\ error' = error)]_vars

\* C1, amended: handling the completion of a cancelled dialog leaves path and
\* buffer unchanged and sets the remembered error to DialogClosed.
C1_CancelKeepsPathAndBuffer ==
    [][\A t \in TaskSet :
          ((FileOpenedErr(t) \/ FileSavedErr(t)) /\ IsCancel(t))
             => (path' = path /\ content' = content
                 /\ error' = Some(DialogClosed))]_vars

\* C1 witness: a cancelled dialog's completion was the last message handled,
\* in a state with a known path and a non-empty buffer.
C1_CancelHandled ==
    /\ last \in ErrHandled
    /\ error = Some(DialogClosed)
    /\ path # None
    /\ content # new

\* C2, as claimed: handling FileOpened(Err(IOFailed(k))) leaves path = None,
\* error = IOFailed(k) and the buffer as it was.
C2_OpenFailureClearsPath ==
    [][\A t \in TaskSet :
          (FileOpenedErr(t) /\ IsIOFailure(t))
             => (path' = None /\ error' = Some(t.result.err)
                 /\ content' = content)]_vars

\* C2, amended: handling FileOpened(Err(IOFailed(k))) sets the remembered
\* error to IOFailed(k) and leaves both the path and the buffer as they were.
C2_OpenFailureKeepsPath ==
    [][\A t \in TaskSet :
          (FileOpenedErr(t) /\ IsIOFailure(t))
             => (path' = path /\ error' = Some(t.result.err)
                 /\ content' = content)]_vars

\* C2 witness: a failed open was the last message handled and the path known
\* before it is still there.
C2_OpenFailedWithPath ==
    /\ last = "FileOpenedErr"
    /\ error # None /\ error[1].tag = "IOFailed"
    /\ path # None

\* C3, as claimed: right after an Edit, a FileOpened(Ok(..)) or a
\* FileSaved(Ok(..)) is handled, no error is remembered.
C3_ErrorsTransient ==
    last \in {"Edit", "FileOpenedOk", "FileSavedOk"} => error = None

\* C4, as claimed: at most one asynchronous operation is outstanding.
C4_AtMostOneOutstanding == Pending <= 1

\* C4, amended: every step issues at most one asynchronous operation, and
\* only the Open and Save arms issue one; several can be outstanding.
C4_OneOperationPerStep ==
    [][/\ Pending' <= Pending + 1
       /\ Pending' > Pending => (Open \/ Save)]_vars

\* C4 witness: Open or Save was handled while an earlier operation's
\* completion had not been applied yet.
C4_IssuedWhilePending == last \in {"Open", "Save"} /\ Pending = 2

SaveDialogs(b) ==
    {u \in BagToSet(b) : u.kind = "save" /\ u.stage = "dialog"}

\* C5: Save with path = Some(p) issues save_file at its write, targeting p,
\* with no dialog; Save with path = None issues it at its dialog.  A save
\* dialog opens only that way, a cancelled one ends in DialogClosed with
\* nothing written, and every write is that of a save at its write stage, to
\* its path.  FileSaved(Ok(q)) sets path to Some(q); FileSaved(Err(e)) sets
\* the remembered error to e.
C5_SaveUsesPathOrAsks ==
    [][/\ Save =>
            \E u \in BagToSet(tasks') :
                /\ tasks' = Issue(u)
                /\ u.kind = "save" /\ u.text = text(content)
                /\ IF path # None
                   THEN u.stage = "io" /\ u.path = path[1]
                   ELSE u.stage = "dialog"
       /\ \A u \in SaveDialogs(tasks') :
             CopiesIn(u, tasks') > CopiesIn(u, tasks) => (Save /\ path = None)
       /\ \A t \in TaskSet :
             SaveFileClosed(t) =>
                 /\ written' = written
                 /\ CopiesIn(finished(t, Err(DialogClosed)), tasks') > 0
       /\ written' # written =>
             \E t \in TaskSet :
                 /\ t.kind = "save" /\ t.stage = "io"
                 /\ written' = [path |-> t.path, text |-> t.text]
       /\ \A t \in TaskSet : FileSavedOk(t) => path' = Some(t.result.path)
       /\ \A t \in TaskSet : FileSavedErr(t) => error' = Some(t.result.err)]_vars

\* C5 witness: a save was written and its completion handled: the path is the
\* one written to.
C5_SavedToPath ==
    /\ last = "FileSavedOk"
    /\ written # NoWrite
    /\ path = Some(written.path)

OpenDialogs(b) ==
    {u \in BagToSet(b) : u.kind = "open" /\ u.stage = "dialog"}

\* C6: FileOpened(Ok((p, c))) sets path to Some(p) and the buffer to the
\* lines of c, which joined give back exactly c; FileOpened(Err(e)) sets the
\* remembered error to e; a picker that leaves its dialog either starts the
\* read of the picked path or, cancelled, ends in DialogClosed, and no read
\* result exists for an operation still at its dialog.
C6_OpenReplacesPathAndBuffer ==
    [][/\ \A t \in TaskSet :
             FileOpenedOk(t) =>
                 /\ path' = Some(t.result.path)
                 /\ content' = with_text(t.result.contents)
                 /\ JoinLines(content'.lines) = t.result.contents
       /\ \A t \in TaskSet : FileOpenedErr(t) => error' = Some(t.result.err)
       /\ \A t \in OpenDialogs(tasks) :
             CopiesIn(t, tasks') < CopiesIn(t, tasks) =>
                 \/ \E p \in Paths : tasks' = Replace(t, load_file(p))
                 \/ tasks' = Replace(t, finished(t, Err(DialogClosed)))]_vars

\* C6 witness: a successful open was the last message handled and the buffer
\* holds a non-empty file.
C6_FileOpened ==
    /\ last = "FileOpenedOk"
    /\ path = Some("notes.txt")
    /\ content = with_text(<<"a">>)

\* C7: handling Edit(a) applies a to the buffer, clears the remembered error,
\* leaves the path unchanged and issues no asynchronous operation.
C7_EditAppliesAndClears ==
    [][\A a \in Actions :
          Edit(a) => /\ content' = perform(content, a)
                     /\ error' = None
                     /\ path' = path
                     /\ tasks' = tasks
                     /\ written' = written]_vars

\* C7 witness: an Edit was the last message handled, on a named document.
C7_Edited ==
    /\ last = "Edit"
    /\ path # None
    /\ content # new
    /\ error = None

\* C8: handling New yields path = None and an empty buffer and issues no
\* asynchronous operation: no dialog, no read, no write.
C8_NewResets ==
    [][New => /\ path' = None
              /\ JoinLines(content'.lines) = <<>>
              /\ content' = with_text(<<>>)
              /\ tasks' = tasks
              /\ written' = written]_vars

\* C8 witness: New was the last message handled, after a file had been
\* written.
C8_NewHandled ==
    /\ last = "New"
    /\ path = None
    /\ written # NoWrite

\* C9, as claimed: when Save is triggered after FileOpened(Ok((p, c))) with
\* no other message in between, the write it issues targets p and its text
\* is exactly c.
C9_LoadSaveRoundTrip ==
    [][\A c \in Texts :
          (Save /\ last = "FileOpenedOk" /\ content = with_text(c))
             => \E u \in BagToSet(tasks') :
                    /\ tasks' = Issue(u)
                    /\ u.stage = "io" /\ u.path = path[1]
                    /\ u.text = c]_vars

OptionErrors == {None} \cup {Some(e) : e \in Errors}

\* C10: the error field holds none or exactly one error, and handling
\* FileOpened(Err(e)) or FileSaved(Err(e)) leaves e remembered whatever was
\* remembered before.
C10_OneErrorReplaced ==
    /\ [](error \in OptionErrors)
    /\ [][\A t \in TaskSet :
             (FileOpenedErr(t) \/ FileSavedErr(t))
                => error' = Some(t.result.err)]_vars

\* C10 witness: a failed completion was handled, its error is remembered, and
\* another failure with a different error waits to replace it.
C10_ErrorAboutToBeReplaced ==
    /\ last \in ErrHandled
    /\ error # None
    /\ \E t \in TaskSet :
          t.stage = "done" /\ ~t.result.ok /\ Some(t.result.err) # error


IsIOError == error # None /\ error[1].tag = "IOFailed"

\* C11, as claimed: the status text is the I/O error kind exactly when the
\* remembered error is IOFailed(k); when it is none or DialogClosed the text
\* is the current path if one is known and "New file" otherwise.
C11_StatusShowsErrorOrPath ==
    /\ IsIOError => status = to_string(error[1].kind)
    /\ ~IsIOError =>
          /\ status \notin {to_string(k) : k \in ErrorKinds}
          /\ status = IF path # None THEN path[1] ELSE "New file"

\* C11, what the code does: the status text is the I/O error kind exactly
\* when the remembered error is IOFailed(k); when it is none or DialogClosed
\* the text is the current path if one is known and is valid UTF-8, and
\* "New file" otherwise (no path, or a path that is not valid UTF-8).
C11_StatusShowsErrorOrUtf8Path ==
    /\ IsIOError => status = to_string(error[1].kind)
    /\ ~IsIOError =>
          /\ status \notin {to_string(k) : k \in ErrorKinds}
          /\ status = IF path # None /\ path[1] # NonUtf8File
                      THEN path[1]
                      ELSE "New file"

\* C11, a state of the claim's second case: a cancelled dialog is remembered
\* while the document has a path, and the status text is that path.
C11_CancelNotShown ==
    /\ error = Some(DialogClosed)
    /\ path = Some("notes.txt")
    /\ status = "notes.txt"


\* C13: the position shown is (line + 1):(column + 1) for the buffer's
\* 0-based cursor position (line, column), a position inside the buffer:
\* line l of its lines and a column from 1 to one past the line's end.
C13_PositionOneBased ==
    \E l \in 1..Len(content.lines) :
        \E c \in 1..(Len(content.lines[l]) + 1) :
            /\ cursor_position(content) = <<l - 1, c - 1>>
            /\ position = ToString(l) \o ":" \o ToString(c)

\* C13 witness: Enter moved the cursor to the second line, shown as 2:1.
C13_SecondLine ==
    /\ last = "Edit"
    /\ cursor_position(content) = <<1, 0>>
    /\ position = "2:1"


Completions == {"FileOpenedOk", "FileOpenedErr", "FileSavedOk", "FileSavedErr"}
Done(b) == {u \in BagToSet(b) : u.stage = "done"}

\* C12: Edit, New and every completion handler issue no asynchronous
\* operation (a completion only retires the one operation it belongs to);
\* Open and Save each issue exactly one; an operation finishes with exactly
\* one result, which stays as it is until its one message is handled and is
\* then gone; an await never adds or drops an operation.
C12_NoRetryOneCompletion ==
    [][/\ (last' \in {"Edit", "New"} /\ ((\E a \in Actions : Edit(a)) \/ New))
             => tasks' = tasks
       /\ last' \in Completions =>
             \A t \in Done(tasks) :
                (FileOpenedOk(t) \/ FileOpenedErr(t)
                    \/ FileSavedOk(t) \/ FileSavedErr(t))
                   => /\ tasks' = Retire(t)
                      /\ Pending' = Pending - 1
       /\ (last' \in {"Open", "Save"} /\ (Open \/ Save))
             => Pending' = Pending + 1
       /\ Pending' < Pending => last' \in Completions
       /\ tasks' # tasks =>
             \A u \in Done(tasks) :
                CopiesIn(u, tasks') < CopiesIn(u, tasks)
                => /\ Pending' = Pending - 1
                   /\ last' = (IF u.kind = "open" THEN "FileOpened"
                                                  ELSE "FileSaved")
                              \o (IF u.result.ok THEN "Ok" ELSE "Err")]_vars

\* C12 witness: a failed save was the last message handled and nothing is
\* outstanding: the save was not attempted again.
C12_FailedAndIdle ==
    /\ last = "FileSavedErr"
    /\ error # None /\ error[1].tag = "IOFailed"
    /\ tasks = EmptyBag

StartupTasks ==
    {load_file(default_file)}
        \cup {finished(load_file(default_file), OkOpened(default_file, c)) :
                 c \in Texts}
        \cup {finished(load_file(default_file), Err(IOFailed(k))) :
                 k \in ErrorKinds}

\* C14: until a first message is handled the path is none, the buffer empty,
\* no error remembered, and exactly one operation outstanding: the load of
\* the default file, never at a dialog and never ending in DialogClosed.
\* Its success, handled, makes the path the default file and the buffer its
\* contents; its failure, handled, leaves an IOFailed error remembered, the
\* path none and the buffer empty.
C14_Startup ==
    /\ [](last = "new" =>
             /\ path = None /\ content = new /\ error = None
             /\ Pending = 1
             /\ TaskSet \subseteq StartupTasks)
    /\ [][last = "new" =>
             \A t \in TaskSet :
                /\ FileOpenedOk(t) =>
                      /\ path' = Some(default_file)
                      /\ content' = with_text(t.result.contents)
                      /\ error' = None
                /\ FileOpenedErr(t) =>
                      /\ error' # None /\ error'[1].tag = "IOFailed"
                      /\ path' = None
                      /\ JoinLines(content'.lines) = <<>>]_vars

\* C14 witness: the startup load failed and its message was handled: an
\* IOFailed error, no path, an empty buffer, nothing outstanding or written.
C14_StartupLoadFailed ==
    /\ last = "FileOpenedErr"
    /\ error = Some(IOFailed("NotFound"))
    /\ path = None /\ content = new
    /\ tasks = EmptyBag /\ written = NoWrite


\* C15, as claimed, for the first message after New: every operation still
\* outstanding when New has just been handled was issued before it, so the
\* next step leaves the path none.
C15_StaysUnnamedAfterNew ==
    [][last = "New" => path' = None]_vars

\* C15, amended: once New has been handled the path stays none until a
\* FileOpened(Ok(..)) or FileSaved(Ok(..)) is handled, whichever operation
\* it completes, one issued before the New included; and the buffer is
\* replaced only by New or by a FileOpened(Ok(..)).
C15_NamedOnlyByCompletion ==
    [][/\ (path = None /\ path' # None) =>
             \E t \in Done(tasks) : FileOpenedOk(t) \/ FileSavedOk(t)
       /\ content' # content =>
             \/ \E a \in Actions : Edit(a)
             \/ New
             \/ \E t \in Done(tasks) : FileOpenedOk(t)]_vars

\* C15 witness: New was the last message handled and a successful completion
\* of an operation issued before it waits to be handled.
C15_StaleCompletionAfterNew ==
    /\ last = "New"
    /\ path = None
    /\ \E t \in TaskSet : t.stage = "done" /\ t.result.ok

SaveTasks(b) == {u \in BagToSet(b) : u.kind = "save" /\ u.stage # "done"}

\* C16: Save hands save_file the buffer text and the path as they are when
\* the Save message is handled; no Edit, New or FileOpened handled later
\* changes an outstanding save; a save leaves its dialog with its text
\* unchanged; the write, when it runs, writes that text to the save's path,
\* and the result it finishes with names that same path, which
\* FileSaved(Ok(p)) then stores.
C16_SaveWritesSnapshot ==
    [][/\ (last' = "Save" /\ Save) =>
             \E u \in SaveTasks(tasks') :
                /\ tasks' = Issue(u)
                /\ u.text = text(content)
                /\ path # None => u.path = path[1]
       /\ (/\ last' \in {"Edit", "New", "FileOpenedOk", "FileOpenedErr"}
           /\ \/ \E a \in Actions : Edit(a)
              \/ New
              \/ \E t \in Done(tasks) : FileOpenedOk(t) \/ FileOpenedErr(t))
             => \A u \in SaveTasks(tasks) \cup SaveTasks(tasks') :
                   CopiesIn(u, tasks') = CopiesIn(u, tasks)
       /\ \A t \in (IF tasks' # tasks THEN SaveTasks(tasks) ELSE {}) :
             CopiesIn(t, tasks') < CopiesIn(t, tasks) =>
                \/ /\ t.stage = "dialog"
                   /\ \E p \in Paths :
                         tasks' = Replace(t, save_file(Some(p), t.text))
                   /\ written' = written
                \/ /\ tasks' = Replace(t, finished(t, OkSaved(t.path)))
                   /\ t.stage = "io"
                   /\ written' = [path |-> t.path, text |-> t.text]
                \/ /\ \E e \in Errors : tasks' = Replace(t, finished(t, Err(e)))
                   /\ written' = written
       /\ last' = "FileSavedOk" =>
             \A t \in Done(tasks) :
                FileSavedOk(t) => path' = Some(t.result.path)]_vars

\* C16 witness: the buffer changed while a save was outstanding, and what
\* was written is the text of the save, not the buffer's text now.
C16_WroteOlderText ==
    /\ last \in {"Edit", "New", "FileOpenedOk"}
    /\ written # NoWrite
    /\ written.text # text(content)
    /\ \E t \in TaskSet : t = finished(t, OkSaved(written.path))

\* C17: handling Open or Save leaves path, buffer and remembered error
\* unchanged; they change only when an arm of update other than these two
\* runs (no await of an operation changes them), and FileSaved(..) never
\* changes the buffer.
C17_TriggerChangesNothing ==
    [][/\ (last' \in {"Open", "Save"} /\ (Open \/ Save)) =>
             (path' = path /\ content' = content /\ error' = error)
       /\ <<path, content, error>>' # <<path, content, error>> =>
             /\ last' \in Completions \cup {"Edit", "New"}
             /\ \/ \E a \in Actions : Edit(a)
                \/ New
                \/ \E t \in Done(tasks) :
                      FileOpenedOk(t) \/ FileOpenedErr(t)
                         \/ FileSavedOk(t) \/ FileSavedErr(t)
       /\ last' \in {"FileSavedOk", "FileSavedErr"} =>
             \A t \in Done(tasks) :
                (FileSavedOk(t) \/ FileSavedErr(t)) => content' = content]_vars

\* C17 witness: Save was the last message handled, in a state with a path,
\* a non-empty buffer and a remembered error, all still there.
C17_SaveTriggered ==
    /\ last = "Save"
    /\ path # None /\ content # new /\ error # None
    /\ \E t \in TaskSet : t.kind = "save" /\ t.stage = "io"

\* C18: handling FileSaved(Err(e)) leaves path and buffer unchanged; so a
\* path that was none stays none, and a Save handled next with the path
\* still none starts at the save dialog again.
C18_FailedSaveChangesOnlyError ==
    [][/\ last' = "FileSavedErr" =>
             \A t \in Done(tasks) :
                FileSavedErr(t) =>
                   /\ path' = path /\ content' = content
                   /\ error' = Some(t.result.err)
       /\ (last = "FileSavedErr" /\ path = None /\ last' = "Save" /\ Save) =>
             \E u \in SaveDialogs(tasks') :
                CopiesIn(u, tasks') = CopiesIn(u, tasks) + 1]_vars

\* C18 witness: after a failed save of an unnamed document, Save was handled
\* again and its dialog is open.
C18_AsksAgain ==
    /\ last = "Save"
    /\ path = None
    /\ error = Some(IOFailed("PermissionDenied"))
    /\ written = NoWrite
    /\ SaveDialogs(tasks) # {}


====
